---- MODULE Spec2Model ----
(***************************************************************************)
(* Model of src/app.py: the analytics dashboard script.  One run of the    *)
(* script is a straight line: load_parquet, clean_dataframe, the profit    *)
(* column, the sidebar filters, the empty check, then the views.           *)
(*                                                                         *)
(* A table (pandas DataFrame) is a record [cols, rows]: cols is the set of *)
(* column names, rows a sequence of [idx, val] where idx is the pandas     *)
(* index label of the row and val a function from cols to the cells.       *)
(* conv is the set of columns whose dtype is already datetime or numeric:  *)
(* pd.to_datetime and pd.to_numeric leave such a column as it is.          *)
(* A numeric cell is <<v>>, NaN is <<>>; a date cell is <<y, m, d>>, NaT   *)
(* is <<>>; every other cell is a string.                                  *)
(* Column names are the source's, except the Thai ones, written in ASCII:  *)
(* "Hospital" for the hospital column, "PatientGender" for the patient     *)
(* gender column.                                                          *)
(***************************************************************************)
EXTENDS Integers, Sequences, FiniteSets, TLC

VARIABLES
    pc,                 \* position of the run in the script
    source,             \* what DATA_PATH holds: a table or a failure
    df_raw,             \* the loaded table
    strict_dedup,       \* sidebar checkbox
    df,                 \* the cleaned table (then with Profit)
    df_again,           \* clean_dataframe applied to its own output
    profit_formula,     \* sidebar selectbox
    date_range,         \* sidebar date_input
    selected_branches,  \* sidebar branch selection
    df_filtered,        \* the filtered view
    out,                \* what the run has rendered, in order
    sliders,            \* the st.slider calls of the view just run
    tops                \* the .head(N) truncations of the view just run

vars == <<pc, source, df_raw, strict_dedup, df, df_again, profit_formula,
          date_range, selected_branches, df_filtered, out, sliders, tops>>

\* Bounds of the input families.
MaxRows == 3
MaxProfitRows == 2
MaxFilterRows == 2
MaxRunRows == 1
MaxMissing == 2
MaxDeriveRows == 2
MaxTopBranches == 6
MaxTopProducts == 11
MaxTopGroups == 6

NoTable == [cols |-> {}, conv |-> {}, rows |-> <<>>]

---------------------------------------------------------------------------
\* pandas primitives.

\* df[c] = df[c].<op> when c is a column, else unchanged; cells holds the
\* new cells, one per row.
SetCol(t, c, cells) ==
    [cols |-> t.cols \cup {c},
     conv |-> t.conv,
     rows |-> [i \in 1..Len(t.rows) |->
                 [idx |-> t.rows[i].idx,
                  val |-> [k \in t.cols \cup {c} |->
                             IF k = c THEN cells[i] ELSE t.rows[i].val[k]]]]]

\* The cells of column c, one per row.
Col(t, c) == [i \in 1..Len(t.rows) |-> t.rows[i].val[c]]

\* df.rename(columns={old: new}, inplace=True).  The callers rename only
\* when new is not a column (new is the first alias of its list).
Rename(t, old, new) ==
    [cols |-> (t.cols \ {old}) \cup {new},
     conv |-> IF old \in t.conv THEN (t.conv \ {old}) \cup {new} ELSE t.conv,
     rows |-> [i \in 1..Len(t.rows) |->
                 [idx |-> t.rows[i].idx,
                  val |-> [k \in (t.cols \ {old}) \cup {new} |->
                             IF k = new THEN t.rows[i].val[old]
                                        ELSE t.rows[i].val[k]]]]]

\* next((c for c in aliases if c in df.columns), None); "" stands for None.
RECURSIVE FirstPresent(_, _)
FirstPresent(aliases, cols) ==
    IF aliases = <<>> THEN ""
    ELSE IF Head(aliases) \in cols THEN Head(aliases)
         ELSE FirstPresent(Tail(aliases), cols)

---------------------------------------------------------------------------
\* Cell conversions.

NaT == <<>>
NaN == <<>>

\* pd.to_datetime(x, errors="coerce") on the raw date strings of the model.
to_datetime(s) ==
    CASE s = "2025-01-15" -> <<2025, 1, 15>>
      [] s = "2025-01-20" -> <<2025, 1, 20>>
      [] s = "2025-02-10" -> <<2025, 2, 10>>
      [] OTHER -> NaT

\* Timestamp comparison a <= b; False when either side is NaT.
DateLeq(a, b) ==
    /\ a # NaT
    /\ b # NaT
    /\ \/ a[1] < b[1]
       \/ a[1] = b[1] /\ a[2] < b[2]
       \/ a[1] = b[1] /\ a[2] = b[2] /\ a[3] <= b[3]

\* pd.to_numeric(x, errors="coerce") on the raw strings of the model.
to_numeric(s) ==
    CASE s = "0"   -> <<0>>
      [] s = "1"   -> <<1>>
      [] s = "2"   -> <<2>>
      [] s = "3"   -> <<3>>
      [] s = "5"   -> <<5>>
      [] s = "17"  -> <<17>>
      [] s = "18"  -> <<18>>
      [] s = "20"  -> <<20>>
      [] s = "35"  -> <<35>>
      [] s = "36"  -> <<36>>
      [] s = "50"  -> <<50>>
      [] s = "55"  -> <<55>>
      [] s = "56"  -> <<56>>
      [] s = "60"  -> <<60>>
      [] s = "100" -> <<100>>
      [] s = "200" -> <<200>>
      [] OTHER -> NaN

\* .fillna(0) on a numeric cell.
fillna0(x) == IF x = NaN THEN <<0>> ELSE x

\* .astype(str).str.strip() on the strings of the model; a missing cell is
\* written "None", which is what astype(str) makes of it.
strip(s) ==
    CASE s = " A"  -> "A"
      [] s = "A "  -> "A"
      [] s = " B " -> "B"
      [] s = " X"  -> "X"
      [] s = " M " -> "M"
      [] s = "W "  -> "W"
      [] s = " ying" -> "ying"
      [] OTHER -> s

\* df[c] = pd.to_datetime(df[c], errors="coerce")
ParseDateCol(t, c) ==
    IF c \in t.cols /\ c \notin t.conv
      THEN [SetCol(t, c, [i \in 1..Len(t.rows) |-> to_datetime(Col(t, c)[i])])
              EXCEPT !.conv = @ \cup {c}]
      ELSE t

\* df[c] = pd.to_numeric(df[c], errors="coerce")
ParseNumCol(t, c) ==
    IF c \in t.cols /\ c \notin t.conv
      THEN [SetCol(t, c, [i \in 1..Len(t.rows) |-> to_numeric(Col(t, c)[i])])
              EXCEPT !.conv = @ \cup {c}]
      ELSE t

RECURSIVE ParseDateCols(_, _)
ParseDateCols(t, cs) ==
    IF cs = <<>> THEN t ELSE ParseDateCols(ParseDateCol(t, Head(cs)), Tail(cs))

RECURSIVE ParseNumCols(_, _)
ParseNumCols(t, cs) ==
    IF cs = <<>> THEN t ELSE ParseNumCols(ParseNumCol(t, Head(cs)), Tail(cs))

\* df[c] = df[c].astype(str).str.strip()
StripCol(t, c) ==
    IF c \in t.cols
      THEN SetCol(t, c, [i \in 1..Len(t.rows) |-> strip(Col(t, c)[i])])
      ELSE t

\* df[c] = df[c].fillna(0)
FillCol(t, c) ==
    IF c \in t.cols
      THEN SetCol(t, c, [i \in 1..Len(t.rows) |-> fillna0(Col(t, c)[i])])
      ELSE t

RECURSIVE StripCols(_, _)
StripCols(t, cs) ==
    IF cs = <<>> THEN t ELSE StripCols(StripCol(t, Head(cs)), Tail(cs))

RECURSIVE FillCols(_, _)
FillCols(t, cs) ==
    IF cs = <<>> THEN t ELSE FillCols(FillCol(t, Head(cs)), Tail(cs))

---------------------------------------------------------------------------
\* clean_dataframe (src/app.py lines 34-138).

desc_aliases  == <<"Description", "Dscription", "dscription", "description">>
other_dates   == <<"Payment Date", "Paid Date", "Due Date", "Invoice Date",
                   "Document Date">>
numeric_cols  == <<"LineTotal", "avg_cost", "age", "Quantity">>
string_cols   == <<"Branch", "PatientGender", "Hospital",
                   "Customer/Vendor Name", "group_disease", "Description">>
payer_aliases == <<"Customer/Vendor Name", "TreatmentRight", "PayerThai",
                   "Payer", "Insurance", "TreatmentRight2">>
paym_aliases  == <<"Payment Method", "PaymentMethodThai", "PaymentChannel",
                   "PaymentKind", "Payment Type", "Method">>

\* Lines 38-41: the first description alias present becomes "Description".
UnifyDescription(t) ==
    LET a == FirstPresent(desc_aliases, t.cols)
    IN IF a # "" /\ a # "Description" THEN Rename(t, a, "Description") ELSE t

\* Lines 44-63: date parsing, numeric coercion, trimming, NaN -> 0.
CoerceTypes(t) ==
    FillCols(
      StripCols(
        ParseNumCols(
          ParseDateCols(ParseDateCol(t, "Posting Date"), other_dates),
          numeric_cols),
        string_cols),
      numeric_cols)

HasDate(r) == r.val["Posting Date"] # NaT

\* Mutant: the filtered frame is not kept.
DropMissingDate_Keep(t) ==
    t

\* Lines 66-69: rows with a missing Posting Date go; Year and YM are added.
DropMissingDate(t) ==
    IF "Posting Date" \in t.cols
      THEN LET kept == [t EXCEPT !.rows = SelectSeq(t.rows, HasDate)]
               date == Col(kept, "Posting Date")
               n    == Len(kept.rows)
           IN SetCol(SetCol(kept, "Year", [i \in 1..n |-> date[i][1]]),
                     "YM", [i \in 1..n |-> <<date[i][1], date[i][2]>>])
      ELSE t

\* Mutant: the key "W" is missing from the dictionary.
gender_mapping_NoW(g) ==
    CASE g = "M"    -> "Male"
      [] g = "F"    -> "Female"
      [] g = "chai" -> "Male"
      [] g = "ying" -> "Female"
      [] OTHER      -> "Other"

\* Line 72 and .map(gender_mapping).fillna("Other"); the two Thai keys are
\* written "chai" and "ying".
gender_mapping(g) ==
    CASE g = "M"    -> "Male"
      [] g = "F"    -> "Female"
      [] g = "W"    -> "Female"
      [] g = "chai" -> "Male"
      [] g = "ying" -> "Female"
      [] OTHER      -> "Other"

\* Lines 77-79: pd.cut(age, bins=[0,17,35,55,200], labels, right=True): the
\* intervals are (0,17], (17,35], (35,55], (55,200]; "" is a missing label.
age_group(a) ==
    CASE a = NaN                  -> ""
      [] 0 < a[1] /\ a[1] <= 17   -> "0-17"
      [] 17 < a[1] /\ a[1] <= 35  -> "18-35"
      [] 35 < a[1] /\ a[1] <= 55  -> "36-55"
      [] 55 < a[1] /\ a[1] <= 200 -> "56+"
      [] OTHER                    -> ""

\* Lines 81-92: .map(disease_mapping).fillna(original); of the eight keys
\* "URI" is kept and one Thai key is written "th:viral".
disease_mapping(d) ==
    CASE d = "URI"      -> "Upper Respiratory Infection (URI)"
      [] d = "th:viral" -> "Viral Infection"
      [] OTHER          -> d

\* Lines 72-92.
DerivedColumns(t) ==
    LET n  == Len(t.rows)
        t1 == IF "PatientGender" \in t.cols
                THEN SetCol(t, "gender_mapped",
                            [i \in 1..n |-> gender_mapping(Col(t, "PatientGender")[i])])
                ELSE t
        t2 == IF "age" \in t1.cols
                THEN SetCol(t1, "age_group",
                            [i \in 1..n |-> age_group(Col(t1, "age")[i])])
                ELSE t1
    IN IF "group_disease" \in t2.cols
         THEN SetCol(t2, "disease_group_mapped",
                     [i \in 1..n |-> disease_mapping(Col(t2, "group_disease")[i])])
         ELSE t2

\* Lines 95-110: payer and payment-method aliases.
NormalizeAliases(t) ==
    LET pa == FirstPresent(payer_aliases, t.cols)
        t1 == IF pa # "" /\ pa # "Customer/Vendor Name"
                THEN Rename(t, pa, "Customer/Vendor Name") ELSE t
        pm == FirstPresent(paym_aliases, t1.cols)
        t2 == IF pm # "" /\ pm # "Payment Method"
                THEN Rename(t1, pm, "Payment Method") ELSE t1
    IN IF pm # "" THEN StripCol(t2, "Payment Method") ELSE t2

\* Everything clean_dataframe does before the de-dup block.
PreDedup(t) ==
    NormalizeAliases(DerivedColumns(DropMissingDate(CoerceTypes(
        UnifyDescription(t)))))

\* Lines 113-117.
candidate_keys ==
    << {"Branch", "Posting Date", "Document No", "Line No", "LineTotal"},
       {"Branch", "Posting Date", "Document No", "Description", "LineTotal"},
       {"Branch", "Posting Date", "Description", "LineTotal"} >>

\* Line 123: a key is tried when at least 3 of its columns are present.
MinKeyCols == 3

KeyOf(r, ks) == [k \in ks |-> r.val[k]]

\* df.duplicated(subset=ks, keep=False).sum()
DupCount(rows, ks) ==
    Cardinality({i \in 1..Len(rows) :
        \E j \in 1..Len(rows) : j # i /\ KeyOf(rows[j], ks) = KeyOf(rows[i], ks)})

\* Mutant: keep="last" instead of the default keep="first".
DropDuplicates_KeepLast(rows, ks) ==
    LET keep(i) == \A j \in (i + 1)..Len(rows) : KeyOf(rows[j], ks) # KeyOf(rows[i], ks)
        RECURSIVE from(_)
        from(i) == IF i > Len(rows) THEN <<>>
                   ELSE (IF keep(i) THEN <<rows[i]>> ELSE <<>>) \o from(i + 1)
    IN from(1)

\* df.drop_duplicates(subset=ks): the first row of every key value stays.
DropDuplicates(rows, ks) ==
    LET keep(i) == \A j \in 1..(i - 1) : KeyOf(rows[j], ks) # KeyOf(rows[i], ks)
        RECURSIVE from(_)
        from(i) == IF i > Len(rows) THEN <<>>
                   ELSE (IF keep(i) THEN <<rows[i]>> ELSE <<>>) \o from(i + 1)
    IN from(1)

\* Lines 121-129: the loop over candidate_keys from key number i on.  The
\* result is the rows and the number of the key used (0 for None).
RECURSIVE DedupLoop(_, _)
DedupLoop(t, i) ==
    IF i > Len(candidate_keys) THEN [rows |-> t.rows, used_key |-> 0]
    ELSE LET ks == candidate_keys[i] \cap t.cols
         IN IF Cardinality(ks) >= MinKeyCols /\ DupCount(t.rows, ks) > 0
              THEN [rows |-> DropDuplicates(t.rows, ks), used_key |-> i]
              ELSE DedupLoop(t, i + 1)

\* Something the run shows: at is the place in the script, kind the
\* Streamlit call (error, warning, info, caption, view) or "exception" for
\* an uncaught Python exception, n and key the numbers the text carries.
Msg(at, kind, what) == [at |-> at, kind |-> kind, what |-> what, n |-> 0, key |-> 0]

\* The table clean_dataframe returns.
clean_dataframe(t, strict) ==
    LET p == PreDedup(t)
    IN IF strict THEN [p EXCEPT !.rows = DedupLoop(p, 1).rows] ELSE p

\* Mutant: full-row duplicates without a usable key go unreported.
clean_warnings_NoReport(t, strict) ==
    LET p == PreDedup(t)
        d == DedupLoop(p, 1)
        before == Len(p.rows)
        after  == Len(d.rows)
    IN IF strict /\ d.used_key # 0 /\ after < before
         THEN << [Msg("clean", "warning", "dedup_removed")
                    EXCEPT !.n = before - after, !.key = d.used_key] >>
         ELSE <<>>

\* Lines 130-136: the warnings clean_dataframe shows.
clean_warnings(t, strict) ==
    LET p == PreDedup(t)
        d == DedupLoop(p, 1)
        before == Len(p.rows)
        after  == Len(d.rows)
    IN IF ~strict THEN <<>>
       ELSE IF d.used_key # 0 /\ after < before
         THEN << [Msg("clean", "warning", "dedup_removed")
                    EXCEPT !.n = before - after, !.key = d.used_key] >>
       ELSE IF d.used_key = 0 /\ DupCount(p.rows, p.cols) > 0
         THEN << [Msg("clean", "warning", "dup_no_key")
                    EXCEPT !.n = DupCount(p.rows, p.cols)] >>
       ELSE <<>>

---------------------------------------------------------------------------
\* The script after clean_dataframe (src/app.py lines 147-596).

profit_formulas == {"Per-Unit", "Current", "Fixed 40%"}

\* Line 166: LineTotal * 0.40.  The amounts of the model are multiples of 5,
\* for which the product is a whole number.
FixedMarginPct == 40

Num(x) == x[1]

\* Mutant: the per-unit formula forgets the quantity.
profit_of_NoQuantity(v, cols, formula) ==
    IF formula = "Fixed 40%"
      THEN << (v["LineTotal"][1] * 40) \div 100 >>
      ELSE << v["LineTotal"][1]
              - (IF "avg_cost" \in cols THEN v["avg_cost"][1] ELSE 0) >>

\* Lines 158-166: the Profit cell of a row with cells v, the table having
\* columns cols.
profit_of(v, cols, formula) ==
    IF formula = "Per-Unit"
      THEN IF {"avg_cost", "Quantity"} \subseteq cols
             THEN << Num(v["LineTotal"]) - Num(v["avg_cost"]) * Num(v["Quantity"]) >>
             ELSE <<0>>
    ELSE IF formula = "Current"
      THEN << Num(v["LineTotal"])
              - (IF "avg_cost" \in cols THEN Num(v["avg_cost"]) ELSE 0) >>
    ELSE << (Num(v["LineTotal"]) * FixedMarginPct) \div 100 >>

\* Lines 157-166 for a table with a LineTotal column.
AddProfit(t, formula) ==
    SetCol(t, "Profit",
           [i \in 1..Len(t.rows) |-> profit_of(t.rows[i].val, t.cols, formula)])

\* Mutant: the end of the date range is excluded.
FilterMask_EndExcluded(v, start, end, branches) ==
    /\ DateLeq(start, v["Posting Date"])
    /\ DateLeq(v["Posting Date"], end)
    /\ v["Posting Date"] # end
    /\ v["Branch"] \in branches

\* Lines 180-183: the mask of the filtered view.
FilterMask(v, start, end, branches) ==
    /\ DateLeq(start, v["Posting Date"])
    /\ DateLeq(v["Posting Date"], end)
    /\ v["Branch"] \in branches

\* Lines 180-184.
FilterTable(t, start, end, branches) ==
    LET keep(r) == FilterMask(r.val, start, end, branches)
    IN [t EXCEPT !.rows = SelectSeq(t.rows, keep)]

ColValues(t, c) == { t.rows[i].val[c] : i \in 1..Len(t.rows) }

\* Lines 168-169: df["Posting Date"].min() and .max().
MinDate(t) == CHOOSE d \in ColValues(t, "Posting Date") :
                  \A e \in ColValues(t, "Posting Date") : DateLeq(d, e)
MaxDate(t) == CHOOSE d \in ColValues(t, "Posting Date") :
                  \A e \in ColValues(t, "Posting Date") : DateLeq(e, d)

\* The dates the date_input widget can return between its min_value and
\* max_value (the days the model's date strings parse to).
ModelDates == { <<2025, 1, 15>>, <<2025, 1, 20>>, <<2025, 2, 10>> }

\* Line 172.
branch_list(t) == ColValues(t, "Branch")

\* df_filtered.groupby(c): the number of groups.
NGroups(t, c) == Cardinality(ColValues(t, c))

Min(a, b) == IF a <= b THEN a ELSE b
Max(a, b) == IF a >= b THEN a ELSE b

\* st.slider(label, min_value, max_value, value) is well formed when
\* min_value <= value <= max_value.
SliderOk(lo, hi, value) == lo <= value /\ value <= hi

\* One st.slider call.
Slider(lo, hi, value) == [min_value |-> lo, max_value |-> hi, value |-> value]

\* What the slider can return: any step of a well-formed range; with another
\* range, if the library returns at all, the value passed in.
SliderValues(lo, hi, value) == IF SliderOk(lo, hi, value) THEN lo..hi ELSE {value}

\* The sum of the numeric column v over the rows of t whose column c is g.
SumOf(t, c, g, v) ==
    LET RECURSIVE upto(_)
        upto(i) == IF i = 0 THEN 0
                   ELSE upto(i - 1)
                        + (IF t.rows[i].val[c] = g THEN Num(t.rows[i].val[v]) ELSE 0)
    IN upto(Len(t.rows))

\* df_filtered.groupby(c) with the size of every group and the sum of its
\* column v: one record for every value of c.
groupby(t, c, v) ==
    { [name  |-> g,
       cases |-> Cardinality({ i \in 1..Len(t.rows) : t.rows[i].val[c] = g }),
       total |-> SumOf(t, c, g, v)] : g \in ColValues(t, c) }

\* The order of .sort_values(by, ascending=False): a before b.  by is
\* "total" (the sum), "cases" (the size) or "cases,mean" (the size, then
\* the mean total / cases, compared without dividing).
Before(a, b, by) ==
    CASE by = "total" -> a.total > b.total
      [] by = "cases" -> a.cases > b.cases
      [] OTHER        -> \/ a.cases > b.cases
                         \/ /\ a.cases = b.cases
                            /\ a.total * b.cases > b.total * a.cases

\* .sort_values(by, ascending=False) on a set of groups: every descending
\* order of them.  The default sort is not stable, equal keys come in any
\* order.
RECURSIVE sort_values(_, _)
sort_values(groups, by) ==
    IF groups = {} THEN { <<>> }
    ELSE UNION { { <<g>> \o rest : rest \in sort_values(groups \ {g}, by) }
                 : g \in { x \in groups :
                             \A y \in groups : ~Before(y, x, by) } }

\* Mutant: one row more than asked for.
head_OneMore(s, n) == SubSeq(s, 1, Min(n + 1, Len(s)))

\* .head(n) for n >= 0.
head(s, n) == SubSeq(s, 1, Min(n, Len(s)))

\* One truncation: the sorted table ranked, the N, the rows shown.
Top(at, n, ranked) == [at |-> at, n |-> n, ranked |-> ranked, shown |-> head(ranked, n)]

---------------------------------------------------------------------------
\* Input families: bounded sets of raw tables.

\* Every row over the columns cs, the cell of column c drawn from dom[c].
RECURSIVE RowVals(_, _)
RowVals(cs, dom) ==
    IF cs = {} THEN { [c \in {} |-> ""] }
    ELSE LET c == CHOOSE x \in cs : TRUE
         IN { (c :> v) @@ r : v \in dom[c], r \in RowVals(cs \ {c}, dom) }

\* A freshly loaded table: RangeIndex 0..n-1, every column of dtype object.
MkTable(cs, vs) ==
    [cols |-> cs, conv |-> {},
     rows |-> [i \in 1..Len(vs) |-> [idx |-> i - 1, val |-> vs[i]]]]

Tables(family, dom, maxRows) ==
    UNION { UNION { { MkTable(cs, vs) : vs \in [1..n -> RowVals(cs, dom)] }
                    : n \in 0..maxRows }
            : cs \in family }

\* Tables for the de-dup block: the three columns that tell the candidate
\* keys apart take two values each and may be absent; the columns common to
\* the keys are all there, or Branch alone.
DedupCols ==
    { base \cup S :
        base \in { {"Branch", "Posting Date", "LineTotal"}, {"Branch"} },
        S \in SUBSET {"Document No", "Line No", "Description"} }

DedupDom ==
    [c \in {"Branch", "LineTotal", "Posting Date", "Document No", "Line No",
            "Description"} |->
       CASE c = "Branch"       -> {"A "}
         [] c = "LineTotal"    -> {"100"}
         [] c = "Posting Date" -> {"2025-01-15"}
         [] c = "Document No"  -> {"D1", "D2"}
         [] c = "Line No"      -> {"1", "2"}
         [] c = "Description"  -> {"X", "Y"}]

\* Tables for the date step: dates that parse and one that does not.
DateCols == { {"Branch", "Posting Date", "Document No", "LineTotal"} }

DateDom ==
    [c \in {"Branch", "Posting Date", "Document No", "LineTotal"} |->
       CASE c = "Branch"       -> {"A "}
         [] c = "LineTotal"    -> {"100"}
         [] c = "Posting Date" -> {"2025-01-15", "2025-02-10", "n/a"}
         [] c = "Document No"  -> {"D1", "D2"}]

\* Tables for the profit column: the three amounts, each with a value that
\* is not a number.
ProfitCols == { {"LineTotal"} \cup S : S \in SUBSET {"avg_cost", "Quantity"} }

ProfitDom ==
    [c \in {"LineTotal", "avg_cost", "Quantity"} |->
       CASE c = "LineTotal" -> {"100", "50", "abc"}
         [] c = "avg_cost"  -> {"20", ""}
         [] c = "Quantity"  -> {"2", "1", "n/a"}]

\* Tables for the filter: two branches, three days.
FilterCols == { {"Branch", "Posting Date", "LineTotal"} }

FilterDom ==
    [c \in {"Branch", "Posting Date", "LineTotal"} |->
       CASE c = "Branch"       -> {"A", " B "}
         [] c = "Posting Date" -> {"2025-01-15", "2025-01-20", "2025-02-10"}
         [] c = "LineTotal"    -> {"100"}]

\* Tables for the derived columns: gender codes in and out of the dictionary,
\* padded and missing; ages at and around the edges of the bins, not numeric
\* and missing.
DeriveCols == { {"PatientGender"}, {"age"} }

DeriveDom ==
    [c \in {"PatientGender", "age"} |->
       CASE c = "PatientGender" ->
              {"M", " M ", "F", "W", "W ", "chai", "ying", " ying", "X", "None"}
         [] c = "age" ->
              {"0", "1", "17", "18", "35", "36", "55", "56", "200", "abc", ""}]

\* Tables for the top-N truncations.  Amounts and ages are told apart by
\* their place in these lists; names are a letter and a number.
Amounts == <<"5", "20", "35", "50", "55", "60", "100", "200">>
Ages    == <<"1", "17", "18", "35", "36", "55", "56", "60">>

Name(letter, i) == letter \o ToString(i)

\* Row i of k: amounts rising or falling with i, starting over after the
\* last of Amounts (from there on amounts repeat).
AmountOf(i, k, pattern) ==
    Amounts[(((IF pattern = "asc" THEN i ELSE k + 1 - i) - 1) % Len(Amounts)) + 1]

\* k branches of one row each: more branches than the top 5.
TopBranchTables ==
    { MkTable({"Branch", "Posting Date", "LineTotal"},
              [i \in 1..k |->
                 [c \in {"Branch", "Posting Date", "LineTotal"} |->
                    CASE c = "Branch"       -> Name("B", i)
                      [] c = "Posting Date" -> "2025-01-15"
                      [] c = "LineTotal"    -> AmountOf(i, k, pattern)]]) :
        k \in 0..MaxTopBranches, pattern \in {"asc", "desc"} }

\* k products of one row each in one branch: more products than the top 10.
TopProductTables ==
    { MkTable({"Branch", "Posting Date", "LineTotal", "Line No", "Description"},
              [i \in 1..k |->
                 [c \in {"Branch", "Posting Date", "LineTotal", "Line No",
                         "Description"} |->
                    CASE c = "Branch"       -> "A"
                      [] c = "Posting Date" -> "2025-01-15"
                      [] c = "LineTotal"    -> AmountOf(i, k, pattern)
                      [] c = "Line No"      -> ToString(i)
                      [] c = "Description"  -> Name("D", i)]]) :
        k \in 0..MaxTopProducts, pattern \in {"asc", "desc"} }

TopGroupCols ==
    {"Branch", "Posting Date", "LineTotal", "Line No", "Description",
     "group_disease", "age", "Customer/Vendor Name", "Hospital"}

\* The rows of group j, size of them: one disease, payer, hospital and
\* product for the group, one amount for every row.
GroupRows(j, size) ==
    [q \in 1..size |->
       [c \in TopGroupCols |->
          CASE c = "Branch"        -> "A"
            [] c = "Posting Date"  -> "2025-01-15"
            [] c = "LineTotal"     -> Amounts[q]
            [] c = "Line No"       -> Name(ToString(j), q)
            [] c = "Description"   -> Name("D", j)
            [] c = "group_disease" -> Name("G", j)
            [] c = "age"           -> Ages[j]
            [] c = "Customer/Vendor Name" -> Name("P", j)
            [] c = "Hospital"      -> Name("H", j)]]

\* g groups of sizes 1..g (rising) or g..1 (falling): more diseases, payers
\* and hospitals than the smallest slider value, no two groups of one size.
RECURSIVE GroupTableRows(_, _, _)
GroupTableRows(j, g, pattern) ==
    IF j > g THEN <<>>
    ELSE GroupRows(j, IF pattern = "asc" THEN j ELSE g + 1 - j)
           \o GroupTableRows(j + 1, g, pattern)

TopGroupTables ==
    { MkTable(TopGroupCols, GroupTableRows(1, g, pattern)) :
        g \in 0..MaxTopGroups, pattern \in {"asc", "desc"} }

\* Tables for the whole run: every column the script reads, up to MaxMissing
\* of them absent.
AllRunCols ==
    {"Branch", "Posting Date", "LineTotal", "avg_cost", "Quantity",
     "Description", "age", "group_disease", "Customer/Vendor Name", "Hospital",
     "Payment Method", "Payment Date", "Due Date"}

\* Branch, Posting Date and LineTotal are read unguarded before any view
\* (lines 160-172); the other columns may be absent.
OptionalRunCols == AllRunCols \ {"Branch", "Posting Date", "LineTotal"}

RunCols ==
    { AllRunCols \ M :
        M \in { X \in SUBSET OptionalRunCols : Cardinality(X) <= MaxMissing } }

RunDom ==
    [c \in AllRunCols |->
       CASE c = "Branch"       -> {"A", " B "}
         [] c = "Posting Date" -> {"2025-01-15", "n/a"}
         [] c = "LineTotal"    -> {"100"}
         [] c = "avg_cost"     -> {"20"}
         [] c = "Quantity"     -> {"2"}
         [] c = "Description"  -> {"X"}
         [] c = "age"          -> {"35"}
         [] c = "group_disease" -> {"URI"}
         [] c = "Customer/Vendor Name" -> {"P1"}
         [] c = "Hospital"     -> {"H1"}
         [] c = "Payment Method" -> {"Cash"}
         [] c = "Payment Date" -> {"2025-01-20"}
         [] c = "Due Date"     -> {"2025-02-10"}]

\* What DATA_PATH can hold: a readable table, or a source that load_parquet
\* fails on.
LoadFailures == {"empty file", "unreachable", "http status", "not parquet"}

Loaded(t) == [ok |-> TRUE, err |-> "", table |-> t]
Failing(e) == [ok |-> FALSE, err |-> e, table |-> NoTable]

---------------------------------------------------------------------------
\* The run.

InitWith(sources) ==
    /\ pc = "load"
    /\ source \in sources
    /\ df_raw = NoTable
    /\ strict_dedup = TRUE
    /\ df = NoTable
    /\ df_again = NoTable
    /\ profit_formula = ""
    /\ date_range = <<NaT, NaT>>
    /\ selected_branches = {}
    /\ df_filtered = NoTable
    /\ out = <<>>
    /\ sliders = <<>>
    /\ tops = <<>>

Show(ms) == out' = out \o ms

\* An uncaught exception at place at: Streamlit shows it and the run ends.
Raise(at, what) ==
    /\ Show(<< Msg(at, "exception", what) >>)
    /\ pc' = "stopped"

\* Mutant: st.error without st.stop.
Load_NoStop ==
    /\ pc = "load"
    /\ df_raw' = source.table
    /\ pc' = "clean"
    /\ out' = IF source.ok THEN out ELSE out \o << Msg("load", "error", source.err) >>
    /\ UNCHANGED <<source, strict_dedup, df, df_again, profit_formula,
                   date_range, selected_branches, df_filtered, sliders, tops>>

\* Lines 27-31: load_parquet; on any exception st.error and st.stop.
Load ==
    /\ pc = "load"
    /\ IF source.ok
         THEN /\ df_raw' = source.table
              /\ pc' = "clean"
              /\ out' = out
         ELSE /\ df_raw' = df_raw
              /\ pc' = "stopped"
              /\ Show(<< Msg("load", "error", source.err) >>)
    /\ UNCHANGED <<source, strict_dedup, df, df_again, profit_formula,
                   date_range, selected_branches, df_filtered, sliders, tops>>

\* Lines 142-144: the checkbox, then clean_dataframe.
Clean ==
    /\ pc = "clean"
    /\ \E s \in BOOLEAN :
         /\ strict_dedup' = s
         /\ df' = clean_dataframe(df_raw, s)
         /\ Show(clean_warnings(df_raw, s))
    /\ pc' = "profit"
    /\ UNCHANGED <<source, df_raw, df_again, profit_formula, date_range,
                   selected_branches, df_filtered, sliders, tops>>

\* clean_dataframe applied to the table it returned, with the same option.
CleanAgain ==
    /\ pc = "profit"
    /\ df_again' = clean_dataframe(df, strict_dedup)
    /\ Show(clean_warnings(df, strict_dedup))
    /\ pc' = "cleaned_again"
    /\ UNCHANGED <<source, df_raw, strict_dedup, df, profit_formula,
                   date_range, selected_branches, df_filtered, sliders, tops>>

\* Lines 147-166: the formula selectbox and the Profit column.
Profit ==
    /\ pc = "profit"
    /\ \E f \in profit_formulas :
         /\ profit_formula' = f
         /\ IF /\ "LineTotal" \notin df.cols
               /\ (f # "Per-Unit" \/ {"avg_cost", "Quantity"} \subseteq df.cols)
              THEN /\ Raise("profit", "KeyError: LineTotal")
                   /\ df' = df
              ELSE /\ df' = AddProfit(df, f)
                   /\ pc' = "filters"
                   /\ out' = out
    /\ UNCHANGED <<source, df_raw, strict_dedup, df_again, date_range,
                   selected_branches, df_filtered, sliders, tops>>

\* Lines 168-184: the date range, the branch selection, the filtered view.
\* On a table with no rows min() is NaT; what date_input does with it is the
\* library's business: it raises, or the range stays NaT and no row passes.
Filters ==
    /\ pc = "filters"
    /\ IF "Posting Date" \notin df.cols
         THEN /\ Raise("filters", "KeyError: Posting Date")
              /\ UNCHANGED <<date_range, selected_branches, df_filtered>>
       ELSE IF df.rows = <<>>
         THEN \/ /\ Raise("filters", "date_input: NaT")
                 /\ UNCHANGED <<date_range, selected_branches, df_filtered>>
              \/ /\ "Branch" \notin df.cols
                 /\ Raise("filters", "KeyError: Branch")
                 /\ UNCHANGED <<date_range, selected_branches, df_filtered>>
              \/ /\ "Branch" \in df.cols
                 /\ date_range' = <<NaT, NaT>>
                 /\ selected_branches' = {}
                 /\ df_filtered' = FilterTable(df, NaT, NaT, {})
                 /\ pc' = "empty_check"
                 /\ out' = out
       ELSE IF "Branch" \notin df.cols
         THEN /\ Raise("filters", "KeyError: Branch")
              /\ UNCHANGED <<date_range, selected_branches, df_filtered>>
       ELSE \E start \in ModelDates, end \in ModelDates,
               sel \in SUBSET branch_list(df) :
              /\ DateLeq(MinDate(df), start)
              /\ DateLeq(start, end)
              /\ DateLeq(end, MaxDate(df))
              /\ date_range' = <<start, end>>
              /\ selected_branches' = sel
              /\ df_filtered' = FilterTable(df, start, end, sel)
              /\ pc' = "empty_check"
              /\ out' = out
    /\ UNCHANGED <<source, df_raw, strict_dedup, df, df_again, profit_formula,
                   sliders, tops>>

\* Mutant: st.warning without st.stop.
EmptyCheck_NoStop ==
    /\ pc = "empty_check"
    /\ out' = IF df_filtered.rows = <<>>
                THEN out \o << Msg("empty_check", "warning", "no data for the filters") >>
                ELSE out \o << Msg("empty_check", "caption", "profit formula"),
                               Msg("empty_check", "info", "branches and dates") >>
    /\ pc' = "summary"
    /\ UNCHANGED <<source, df_raw, strict_dedup, df, df_again, profit_formula,
                   date_range, selected_branches, df_filtered, sliders, tops>>

\* Lines 186-191.
EmptyCheck ==
    /\ pc = "empty_check"
    /\ IF df_filtered.rows = <<>>
         THEN /\ Show(<< Msg("empty_check", "warning", "no data for the filters") >>)
              /\ pc' = "stopped"
         ELSE /\ Show(<< Msg("empty_check", "caption", "profit formula"),
                         Msg("empty_check", "info", "branches and dates") >>)
              /\ pc' = "summary"
    /\ UNCHANGED <<source, df_raw, strict_dedup, df, df_again, profit_formula,
                   date_range, selected_branches, df_filtered, sliders, tops>>

\* The views read df_filtered only.
ViewFrame == UNCHANGED <<source, df_raw, strict_dedup, df, df_again,
                         profit_formula, date_range, selected_branches,
                         df_filtered>>

Has(cs) == cs \subseteq df_filtered.cols

\* A view that is drawn, or replaced by an st.info placeholder.
Draw(at, next) == Show(<< Msg(at, "view", at) >>) /\ pc' = next
Skip(at, next, kind) == Show(<< Msg(at, kind, "missing columns") >>) /\ pc' = next

\* A view with neither a slider nor a truncation.
Plain == sliders' = <<>> /\ tops' = <<>>

\* A view behind a slider whose value truncates one of the orders in
\* ranked: with a well-formed range it is drawn; what st.slider does with
\* another range is the library's business, it raises or it returns the
\* value.
DrawWithSlider(at, next, lo, hi, value, ranked) ==
    \/ \E top_n \in SliderValues(lo, hi, value), r \in ranked :
         /\ sliders' = << Slider(lo, hi, value) >>
         /\ tops' = << Top(at, top_n, r) >>
         /\ Draw(at, next)
    \/ /\ ~SliderOk(lo, hi, value)
       /\ sliders' = << Slider(lo, hi, value) >>
       /\ tops' = <<>>
       /\ Raise(at, "slider range")

\* Lines 197-258: the overview numbers and the top 5 branches.
ViewSummary ==
    /\ pc = "summary"
    /\ IF ~Has({"LineTotal"})
         THEN Raise("summary", "KeyError: LineTotal") /\ Plain
         ELSE /\ Show(<< Msg("summary", "view", "overview"),
                         IF NGroups(df_filtered, "Branch") = 0
                           THEN Msg("summary", "info", "no data")
                           ELSE Msg("summary", "view", "top5") >>)
              /\ \E r \in sort_values(groupby(df_filtered, "Branch", "LineTotal"), "total") :
                   tops' = << Top("summary", 5, r) >>
              /\ sliders' = <<>>
              /\ pc' = "product"
    /\ ViewFrame

\* Lines 260-284: product revenue contribution.
ViewProduct ==
    /\ pc = "product"
    /\ IF Has({"Description"})
         THEN /\ \E r \in sort_values(groupby(df_filtered, "Description", "LineTotal"), "total") :
                   tops' = << Top("product", 10, r) >>
              /\ sliders' = <<>>
              /\ Draw("product", "disease")
         ELSE Skip("product", "disease", "info") /\ Plain
    /\ ViewFrame

\* Lines 290-319: disease by average age.
ViewDisease ==
    /\ pc = "disease"
    /\ IF Has({"disease_group_mapped", "age"})
         THEN LET dis_age == groupby(df_filtered, "disease_group_mapped", "age")
                  n == Cardinality(dis_age)
              IN DrawWithSlider("disease", "payer", 5, Min(60, n), Min(20, n),
                                sort_values(dis_age, "cases,mean"))
         ELSE Skip("disease", "payer", "info") /\ Plain
    /\ ViewFrame

\* Lines 325-385: payer mix.
ViewPayer ==
    /\ pc = "payer"
    /\ IF Has({"Customer/Vendor Name"})
         THEN LET payer_agg == groupby(df_filtered, "Customer/Vendor Name", "LineTotal")
                  n == Cardinality(payer_agg)
              IN DrawWithSlider("payer", "heatmap", 5, Min(50, n), Min(15, n),
                                sort_values(payer_agg, "total"))
         ELSE Skip("payer", "heatmap", "info") /\ Plain
    /\ ViewFrame

\* Lines 388-429: hospital x payer heatmap: the metric radio, two sliders,
\* two truncations.
ViewHeatmap ==
    /\ pc = "heatmap"
    /\ IF Has({"Customer/Vendor Name", "Hospital"})
         THEN LET hosp_tot  == groupby(df_filtered, "Hospital", "LineTotal")
                  payer_tot == groupby(df_filtered, "Customer/Vendor Name", "LineTotal")
                  max_h == Max(5, Min(30, Cardinality(hosp_tot)))
                  max_p == Max(5, Min(30, Cardinality(payer_tot)))
              IN \/ \E metric \in {"cases", "total"},
                       top_h \in SliderValues(5, max_h, Min(12, max_h)),
                       top_p \in SliderValues(5, max_p, Min(15, max_p)) :
                      \E rh \in sort_values(hosp_tot, metric),
                         rp \in sort_values(payer_tot, metric) :
                        /\ sliders' = << Slider(5, max_h, Min(12, max_h)),
                                         Slider(5, max_p, Min(15, max_p)) >>
                        /\ tops' = << Top("heatmap", top_h, rh),
                                      Top("heatmap", top_p, rp) >>
                        /\ Draw("heatmap", "trend")
                 \/ /\ ~SliderOk(5, max_h, Min(12, max_h))
                    /\ sliders' = << Slider(5, max_h, Min(12, max_h)) >>
                    /\ tops' = <<>>
                    /\ Raise("heatmap", "slider range")
                 \/ /\ ~SliderOk(5, max_p, Min(15, max_p))
                    /\ sliders' = << Slider(5, max_h, Min(12, max_h)),
                                     Slider(5, max_p, Min(15, max_p)) >>
                    /\ tops' = <<>>
                    /\ Raise("heatmap", "slider range")
         ELSE Skip("heatmap", "trend", "info") /\ Plain
    /\ ViewFrame

\* Lines 432-461: monthly trend by payer.
ViewTrend ==
    /\ pc = "trend"
    /\ IF Has({"Customer/Vendor Name", "YM", "LineTotal"})
         THEN LET payer_tot == groupby(df_filtered, "Customer/Vendor Name", "LineTotal")
                  n == Cardinality(payer_tot)
              IN DrawWithSlider("trend", "paymethod", 3, Min(15, n), Min(8, n),
                                sort_values(payer_tot, "total"))
         ELSE Skip("trend", "paymethod", "info") /\ Plain
    /\ ViewFrame

\* Lines 464-514: payment method.
ViewPaymentMethod ==
    /\ pc = "paymethod"
    /\ IF Has({"Payment Method"})
         THEN Draw("paymethod", "collection")
         ELSE Skip("paymethod", "collection", "info")
    /\ Plain
    /\ ViewFrame

\* Lines 517-571: collection status.  With a payment date the days to pay
\* are grouped by "Customer/Vendor Name", which line 536 reads unguarded.
ViewCollection ==
    /\ pc = "collection"
    /\ LET has_post == Has({"Posting Date"})
           has_pay  == Has({"Payment Date"}) \/ Has({"Paid Date"})
           has_due  == Has({"Due Date"})
       IN IF has_post /\ (has_pay \/ has_due)
            THEN IF has_pay /\ ~Has({"Customer/Vendor Name"})
                   THEN Raise("collection", "KeyError: Customer/Vendor Name")
                   ELSE Draw("collection", "quality")
            ELSE Skip("collection", "quality", "caption")
    /\ Plain
    /\ ViewFrame

\* Lines 574-591: the data-quality expander; line 589 reads "Description"
\* unguarded.
ViewQuality ==
    /\ pc = "quality"
    /\ IF Has({"Description"})
         THEN Draw("quality", "footer")
         ELSE /\ Show(<< Msg("quality", "view", "totals by branch"),
                         Msg("quality", "exception", "KeyError: Description") >>)
              /\ pc' = "stopped"
    /\ Plain
    /\ ViewFrame

\* Lines 593-596.
Footer ==
    /\ pc = "footer"
    /\ Show(<< Msg("footer", "caption", "data range and rows") >>)
    /\ pc' = "done"
    /\ Plain
    /\ ViewFrame

Views ==
    \/ ViewSummary \/ ViewProduct \/ ViewDisease \/ ViewPayer \/ ViewHeatmap
    \/ ViewTrend \/ ViewPaymentMethod \/ ViewCollection \/ ViewQuality
    \/ Footer

---------------------------------------------------------------------------
\* Specifications.

\* One run of the script.
Init == InitWith({ Failing(e) : e \in LoadFailures }
                 \cup { Loaded(t) : t \in Tables(RunCols, RunDom, MaxRunRows) })

Next == Load \/ Clean \/ Profit \/ Filters \/ EmptyCheck \/ Views

Spec == Init /\ [][Next]_vars

\* clean_dataframe, applied once and then again to its own output.
InitClean == InitWith({ Loaded(t) : t \in Tables(DedupCols, DedupDom, MaxRows)
                                          \cup Tables(DateCols, DateDom, MaxRows) })

NextClean == Load \/ Clean \/ CleanAgain

SpecClean == InitClean /\ [][NextClean]_vars

\* The profit column on tables of amounts.
InitProfit == InitWith({ Loaded(t) : t \in Tables(ProfitCols, ProfitDom, MaxProfitRows) })

NextProfit == Load \/ Clean \/ Profit

SpecProfit == InitProfit /\ [][NextProfit]_vars

\* The filter on tables of branches and days.
InitFilter == InitWith({ Loaded(t) : t \in Tables(FilterCols, FilterDom, MaxFilterRows) })

NextFilter == Load \/ Clean \/ Profit \/ Filters

SpecFilter == InitFilter /\ [][NextFilter]_vars

\* The derived columns of clean_dataframe on tables of gender codes and ages.
InitDerive == InitWith({ Loaded(t) : t \in Tables(DeriveCols, DeriveDom, MaxDeriveRows) })

NextDerive == Load \/ Clean

SpecDerive == InitDerive /\ [][NextDerive]_vars

\* The views with a top-N truncation on tables of many groups.
InitTop == InitWith({ Loaded(t) : t \in TopBranchTables \cup TopProductTables
                                        \cup TopGroupTables })

NextTop ==
    \/ Load \/ Clean \/ Profit \/ Filters \/ EmptyCheck
    \/ ViewSummary \/ ViewProduct \/ ViewDisease \/ ViewPayer \/ ViewHeatmap
    \/ ViewTrend

SpecTop == InitTop /\ [][NextTop]_vars

---------------------------------------------------------------------------
\* Claims about clean_dataframe (checked under SpecClean).

\* The table at the de-dup block of the first run.
AtDedup == PreDedup(df_raw)

\* The number of the first candidate key with at least 3 columns present
\* (0 when there is none).
FirstUsableKey ==
    LET usable == { i \in 1..Len(candidate_keys) :
                      Cardinality(candidate_keys[i] \cap AtDedup.cols) >= MinKeyCols }
    IN IF usable = {} THEN 0 ELSE CHOOSE i \in usable : \A j \in usable : i <= j

IdxOf(t) == { t.rows[i].idx : i \in 1..Len(t.rows) }

\* C1: running clean_dataframe with strict_dedup on a second time, on its own
\* output, drops no further row.
C1_Idempotent ==
    (pc = "cleaned_again" /\ strict_dedup) => Len(df_again.rows) = Len(df.rows)

\* C2: with strict_dedup on, a row is dropped only when it matches an earlier
\* row on the first candidate key that has at least 3 columns present; no
\* later candidate key drops rows.
C2_OnlyFirstUsableKey ==
    (pc = "profit" /\ strict_dedup) =>
        \A i \in 1..Len(AtDedup.rows) :
            AtDedup.rows[i].idx \notin IdxOf(df) =>
                /\ FirstUsableKey # 0
                /\ \E j \in 1..(i - 1) :
                     KeyOf(AtDedup.rows[j], candidate_keys[FirstUsableKey] \cap AtDedup.cols)
                       = KeyOf(AtDedup.rows[i], candidate_keys[FirstUsableKey] \cap AtDedup.cols)

\* The input rows whose Posting Date parses.
Parseable ==
    { df_raw.rows[i].idx : i \in { k \in 1..Len(df_raw.rows) :
                                     to_datetime(df_raw.rows[k].val["Posting Date"]) # NaT } }

\* C3: in the table clean_dataframe returns every row has a non-null Posting
\* Date; the rows removed for their date are exactly those whose Posting Date
\* does not parse (with strict_dedup off the returned rows are exactly the
\* parseable ones).
C3_DateNonNull ==
    (pc = "profit" /\ "Posting Date" \in df_raw.cols) =>
        /\ \A i \in 1..Len(df.rows) : df.rows[i].val["Posting Date"] # NaT
        /\ IdxOf(df) \subseteq Parseable
        /\ ~strict_dedup => IdxOf(df) = Parseable

C3_Witness ==
    /\ pc = "profit"
    /\ "Posting Date" \in df_raw.cols
    /\ ~strict_dedup
    /\ Len(df_raw.rows) = 3
    /\ Len(df.rows) = 2

\* The pairs of rows at the de-dup block that agree on the first candidate key.
Key1Pairs ==
    { pr \in (1..Len(AtDedup.rows)) \X (1..Len(AtDedup.rows)) :
        /\ pr[1] < pr[2]
        /\ KeyOf(AtDedup.rows[pr[1]], candidate_keys[1])
             = KeyOf(AtDedup.rows[pr[2]], candidate_keys[1]) }

C4_Pre ==
    /\ pc = "profit"
    /\ strict_dedup
    /\ candidate_keys[1] \subseteq df_raw.cols
    /\ Parseable = IdxOf(df_raw)
    /\ Cardinality(Key1Pairs) = 1

\* C4: when every date parses and exactly one pair of rows agrees on (Branch,
\* Posting Date, Document No, Line No, LineTotal), values compared as cleaned,
\* strict de-dup removes exactly the later row of the pair: n rows become n-1.
C4_OnePairOneRow ==
    C4_Pre =>
        LET pr == CHOOSE x \in Key1Pairs : TRUE
        IN /\ Len(df.rows) = Len(df_raw.rows) - 1
           /\ IdxOf(df) = IdxOf(df_raw) \ {AtDedup.rows[pr[2]].idx}

C4_Witness == C4_Pre /\ Len(df_raw.rows) = 3

---------------------------------------------------------------------------
\* Claims about the profit column (checked under SpecProfit).

ProfitCell(i) == df.rows[i].val["Profit"][1]
Amount(i, c)  == df.rows[i].val[c][1]

\* The raw row a row of df comes from.
RawOf(i) == df_raw.rows[df.rows[i].idx + 1].val

\* C5: the Profit of a row is computed from that row's LineTotal, avg_cost
\* and Quantity alone, by the selected formula, on every row of the cleaned
\* table before the filter: Per-Unit is LineTotal - avg_cost*Quantity,
\* Current is LineTotal - avg_cost, Fixed 40% is LineTotal*0.40; for
\* (100, 20, 2) that is 60, 80 and 40.
C5_ProfitFormulas ==
    (pc = "filters" /\ {"avg_cost", "Quantity"} \subseteq df.cols) =>
        /\ "Profit" \in df.cols
        /\ df_filtered = NoTable
        /\ \A i \in 1..Len(df.rows) :
             /\ profit_formula = "Per-Unit" =>
                  ProfitCell(i) = Amount(i, "LineTotal")
                                    - Amount(i, "avg_cost") * Amount(i, "Quantity")
             /\ profit_formula = "Current" =>
                  ProfitCell(i) = Amount(i, "LineTotal") - Amount(i, "avg_cost")
             /\ profit_formula = "Fixed 40%" =>
                  ProfitCell(i) * 100 = Amount(i, "LineTotal") * 40
             /\ (/\ RawOf(i)["LineTotal"] = "100"
                 /\ RawOf(i)["avg_cost"] = "20"
                 /\ RawOf(i)["Quantity"] = "2") =>
                  ProfitCell(i) = (CASE profit_formula = "Per-Unit" -> 60
                                     [] profit_formula = "Current"  -> 80
                                     [] OTHER                       -> 40)

C5_Witness ==
    /\ pc = "filters"
    /\ profit_formula = "Per-Unit"
    /\ {"avg_cost", "Quantity"} \subseteq df.cols
    /\ Len(df.rows) = 2
    /\ \E i \in 1..Len(df.rows) :
         /\ RawOf(i)["LineTotal"] = "100"
         /\ RawOf(i)["avg_cost"] = "20"
         /\ RawOf(i)["Quantity"] = "2"
         /\ ProfitCell(i) = 60

\* C6: a quantity that is absent counts as 1: with no Quantity column, or
\* for a row whose Quantity is missing or not a number, the Per-Unit profit
\* is LineTotal - avg_cost.
C6_QuantityDefaultsToOne ==
    (pc = "filters" /\ profit_formula = "Per-Unit" /\ "avg_cost" \in df.cols) =>
        \A i \in 1..Len(df.rows) :
            ( \/ "Quantity" \notin df_raw.cols
              \/ to_numeric(RawOf(i)["Quantity"]) = NaN ) =>
                ProfitCell(i) = Amount(i, "LineTotal") - Amount(i, "avg_cost")

---------------------------------------------------------------------------
\* Claims about the filter (checked under SpecFilter).

InRange(r) ==
    /\ DateLeq(date_range[1], r.val["Posting Date"])
    /\ DateLeq(r.val["Posting Date"], date_range[2])

InBranches(r) == r.val["Branch"] \in selected_branches

InBoth(r) == InRange(r) /\ InBranches(r)

\* C7: the filtered view is exactly the cleaned rows with start <= Posting
\* Date <= end and Branch among the selected ones; filtering the filtered
\* view again changes nothing, and the date predicate and the branch
\* predicate give the same rows in either order.
C7_FilterExact ==
    pc = "empty_check" =>
        /\ df_filtered.cols = df.cols
        /\ df_filtered.rows = SelectSeq(df.rows, InBoth)
        /\ FilterTable(df_filtered, date_range[1], date_range[2], selected_branches)
             = df_filtered
        /\ SelectSeq(SelectSeq(df.rows, InRange), InBranches) = df_filtered.rows
        /\ SelectSeq(SelectSeq(df.rows, InBranches), InRange) = df_filtered.rows

C7_Witness ==
    /\ pc = "empty_check"
    /\ Len(df.rows) = 2
    /\ Len(df_filtered.rows) = 1
    /\ date_range[1] # date_range[2]
    /\ \E i \in 1..2 : ~InRange(df.rows[i]) /\ InBranches(df.rows[i])

---------------------------------------------------------------------------
\* Claims about the run (checked under Spec).

ViewPlaces == {"summary", "product", "disease", "payer", "heatmap", "trend",
               "paymethod", "collection", "quality"}

\* The columns of df_filtered a view reads.
ViewReads(at) ==
    CASE at = "summary"    -> {"LineTotal", "Profit", "Branch", "Posting Date"}
      [] at = "product"    -> {"Description", "LineTotal"}
      [] at = "disease"    -> {"disease_group_mapped", "age"}
      [] at = "payer"      -> {"Customer/Vendor Name", "LineTotal", "Profit"}
      [] at = "heatmap"    -> {"Customer/Vendor Name", "Hospital", "LineTotal"}
      [] at = "trend"      -> {"Customer/Vendor Name", "YM", "LineTotal"}
      [] at = "paymethod"  -> {"Payment Method", "LineTotal"}
      [] at = "collection" -> {"Posting Date", "Customer/Vendor Name", "LineTotal"}
      [] at = "quality"    -> {"Branch", "LineTotal", "Posting Date", "Description"}

\* C8: a view whose required column is absent from the filtered view is
\* skipped with an informational placeholder and the run goes on to the
\* remaining views: no view raises an error over a missing column.
C8_MissingColumnSkipsView ==
    \A i \in 1..Len(out) :
        (out[i].kind = "exception" /\ out[i].at \in ViewPlaces) =>
            ViewReads(out[i].at) \subseteq df_filtered.cols

\* C9: when load_parquet fails the run shows the error and stops: nothing is
\* cleaned, filtered or drawn afterwards and the load is not tried again.
C9_LoadFailureStops ==
    (~source.ok /\ pc # "load") =>
        /\ pc = "stopped"
        /\ out = << Msg("load", "error", source.err) >>
        /\ df_raw = NoTable
        /\ df = NoTable
        /\ df_filtered = NoTable
        /\ ~ENABLED Next

C9_Witness == ~source.ok /\ pc = "stopped" /\ Len(out) = 1

\* The run has computed the filtered view and passed the empty check.
PastEmptyCheck ==
    \E i \in 1..Len(out) : out[i].at \in ViewPlaces \cup {"empty_check", "footer"}

EmptyWarning == Msg("empty_check", "warning", "no data for the filters")

\* C10: when the filter yields no rows the run warns and stops, without an
\* error, and draws no view, tab or data-quality table; when the filter
\* yields a row the run does not take this stop.
C10_EmptyFilterStops ==
    PastEmptyCheck =>
        IF df_filtered.rows = <<>>
          THEN /\ pc = "stopped"
               /\ out[Len(out)] = EmptyWarning
               /\ \A i \in 1..Len(out) :
                    /\ out[i].kind \notin {"view", "exception", "error"}
                    /\ out[i].at \notin ViewPlaces \cup {"footer"}
               /\ ~ENABLED Next
          ELSE \A i \in 1..Len(out) : out[i] # EmptyWarning

C10_Witness ==
    /\ pc = "stopped"
    /\ df.rows # <<>>
    /\ df_filtered.rows = <<>>
    /\ out[Len(out)] = EmptyWarning

---------------------------------------------------------------------------
\* Claims about the report of duplicates without a key (checked under
\* SpecClean).

\* The rows of the table at the de-dup block equal, on every column, to some
\* other row: df.duplicated(keep=False).
FullRowDups ==
    { i \in 1..Len(AtDedup.rows) :
        \E j \in 1..Len(AtDedup.rows) :
            j # i /\ \A c \in AtDedup.cols :
                       AtDedup.rows[j].val[c] = AtDedup.rows[i].val[c] }

C12_Pre ==
    /\ pc = "profit"
    /\ strict_dedup
    /\ FirstUsableKey = 0
    /\ FullRowDups # {}

\* C12: with strict_dedup on, no candidate key usable and exact full-row
\* duplicates present, the duplicates are reported in one warning carrying
\* their number, and the de-dup step drops no row.
C12_ReportWithoutDrop ==
    C12_Pre =>
        /\ df.rows = AtDedup.rows
        /\ out = << [Msg("clean", "warning", "dup_no_key")
                       EXCEPT !.n = Cardinality(FullRowDups)] >>

C12_Witness ==
    /\ C12_Pre
    /\ Len(df.rows) = 3
    /\ Cardinality(FullRowDups) = 2
    /\ Len(out) = 1

---------------------------------------------------------------------------
\* Claims about the derived columns (checked under SpecDerive).

\* The raw row that a cleaned row comes from.
RawRow(r) == df_raw.rows[CHOOSE k \in 1..Len(df_raw.rows) : df_raw.rows[k].idx = r.idx]

\* The gender the claim gives to a trimmed code.
ClaimedGender(code) ==
    IF code \in {"chai", "M"} THEN "Male"
    ELSE IF code \in {"ying", "F", "W"} THEN "Female"
    ELSE "Other"

\* C13: gender_mapped is Male for the trimmed code chai or M, Female for ying,
\* F or W, and Other for every other code, a missing value included; it is
\* always one of the three and no row is without it.
C13_GenderTotal ==
    (pc = "profit" /\ "PatientGender" \in df_raw.cols) =>
        /\ "gender_mapped" \in df.cols
        /\ Len(df.rows) = Len(df_raw.rows)
        /\ \A i \in 1..Len(df.rows) :
             /\ df.rows[i].val["gender_mapped"] \in {"Male", "Female", "Other"}
             /\ df.rows[i].val["gender_mapped"]
                  = ClaimedGender(strip(RawRow(df.rows[i]).val["PatientGender"]))

C13_Witness ==
    /\ pc = "profit"
    /\ "PatientGender" \in df_raw.cols
    /\ Len(df.rows) = 2
    /\ df_raw.rows[1].val["PatientGender"] = "W "
    /\ df.rows[1].val["gender_mapped"] = "Female"
    /\ df_raw.rows[2].val["PatientGender"] = "None"
    /\ df.rows[2].val["gender_mapped"] = "Other"

\* The bucket the claim gives to an age between 0 and 200.
ClaimedBucket(a) ==
    IF a <= 17 THEN "0-17"
    ELSE IF a <= 35 THEN "18-35"
    ELSE IF a <= 55 THEN "36-55"
    ELSE "56+"

\* C15: after clean_dataframe every row with 0 <= age <= 200 carries the
\* bucket of its age: 0-17 up to 17, 18-35 above 17 up to 35, 36-55 above 35
\* up to 55, 56+ above 55; age 0 and a missing or invalid age filled with 0
\* are in 0-17.
C15_AgeBuckets ==
    (pc = "profit" /\ "age" \in df_raw.cols) =>
        /\ "age_group" \in df.cols
        /\ \A i \in 1..Len(df.rows) :
             LET a == df.rows[i].val["age"]
             IN /\ a # NaN
                /\ (0 <= a[1] /\ a[1] <= 200) =>
                       df.rows[i].val["age_group"] = ClaimedBucket(a[1])

---------------------------------------------------------------------------
\* Claims about the sliders of the views (checked under Spec).

\* C14: every slider a view creates on a non-empty filtered view has a
\* well-formed range, min_value <= value <= max_value, whatever the number
\* of groups.
C14_SlidersWellFormed ==
    df_filtered.rows # <<>> =>
        \A i \in 1..Len(sliders) :
            SliderOk(sliders[i].min_value, sliders[i].max_value, sliders[i].value)

---------------------------------------------------------------------------
\* Claims about the top-N truncations (checked under SpecTop).

\* C11: every top-N truncation of a sorted result table returns at most N
\* rows, at least min(N, rows available), and the rows returned are the
\* first rows of the sort order.
C11_TopN ==
    \A i \in 1..Len(tops) :
        /\ Len(tops[i].shown) <= tops[i].n
        /\ Len(tops[i].shown) >= Min(tops[i].n, Len(tops[i].ranked))
        /\ \A k \in 1..Len(tops[i].shown) : tops[i].shown[k] = tops[i].ranked[k]

C11_Witness ==
    /\ Len(tops) = 1
    /\ tops[1].at = "product"
    /\ tops[1].n = 10
    /\ Len(tops[1].ranked) = 11
    /\ Len(tops[1].shown) = 10
    /\ tops[1].ranked[10].total = tops[1].ranked[11].total

====
